---- MODULE Spec2Model ----
(***************************************************************************)
(* aws-signing-proxy (src/main.go): a reverse proxy whose director rewrites *)
(* each inbound request to the target, buffers the body, signs the request  *)
(* with AWS Signature V4 through aws-sdk-go, and copies the signed headers  *)
(* into the request that the transport forwards.                            *)
(*                                                                         *)
(* The model has two parts: the startup sequence of main(), and the        *)
(* per-request handler (director steps, dispatch, response copy) for each  *)
(* request being handled.  Spec handles one request at a time over the     *)
(* whole input space; SpecConc handles NumReq requests concurrently over a *)
(* small workload.                                                         *)
(***************************************************************************)
EXTENDS Integers, Sequences, FiniteSets, TLC

VARIABLES
    env,        \* what the process finds at startup: config decode, target, credential chain
    mainPc,     \* position of main()
    config,     \* the package-level configuration struct (main.go:46)
    targetURL,  \* result of url.Parse(config.Target)
    creds,      \* the credentials provider obtained from the chain
    proxy,      \* the ReverseProxy built by NewSigningProxy (closure: target, creds, region)
    listening,  \* http.ListenAndServe has been called
    stdout,     \* diagnostics printed by main()
    inflight,   \* how many requests the server handles at once in this run
    clients,    \* which requests clients send in this run: "any" or "workload"
    reqs        \* per handler slot: the request being handled and its position

vars == <<env, mainPc, config, targetURL, creds, proxy, listening, stdout,
          inflight, clients, reqs>>

mainVars == <<env, mainPc, config, targetURL, creds, proxy, listening, stdout>>

----------------------------------------------------------------------------
(* Bounds of the model *)

MaxBody == 2
MaxHdr == 2
NumReq == 2

Slots == 1..NumReq

----------------------------------------------------------------------------
(* Startup: main() *)

TargetStrings == {"", "://bad", "https://search.example.com"}

NoURL == [ok |-> FALSE, Scheme |-> "", Host |-> ""]

\* url.Parse on the target strings above: "://bad" has no protocol scheme.
UrlParse(s) ==
    CASE s = "https://search.example.com" ->
             [ok |-> TRUE, Scheme |-> "https", Host |-> "search.example.com"]
      [] s = "" -> [ok |-> TRUE, Scheme |-> "", Host |-> ""]
      [] OTHER -> NoURL

NoCreds == [ok |-> FALSE, akid |-> "", token |-> ""]

\* What defaults.CredChain can resolve to: nothing, static keys, or keys with
\* a session token (environment > shared config file > remote role provider).
CredChainResults ==
    { NoCreds,
      [ok |-> TRUE, akid |-> "AKIDEXAMPLE", token |-> ""],
      [ok |-> TRUE, akid |-> "ASIAEXAMPLE", token |-> "SESSIONTOKEN"] }

DefaultRegion == "us-west-2"

NoConfig == [Target |-> "", Region |-> ""]

NoProxy == [built |-> FALSE, target |-> NoURL, creds |-> NoCreds, region |-> ""]

Environments ==
    [decodeOk : BOOLEAN, target : TargetStrings, chain : CredChainResults]

\* A main() that does not look at the error of creds.Get().
CredsAlwaysObtained == TRUE

\* Does main() go on after the step at which it stands?
UnmarshalOk == env.decodeOk
TargetSet == config.Target # ""
TargetParses == UrlParse(config.Target).ok
CredsObtained == env.chain.ok

Exit(msg) ==
    /\ mainPc' = "exited"
    /\ stdout' = Append(stdout, msg)

\* main.go:169-173
Unmarshal ==
    /\ mainPc = "unmarshal"
    /\ IF UnmarshalOk
       THEN /\ config' = [Target |-> env.target, Region |-> DefaultRegion]
            /\ mainPc' = "checkTarget"
            /\ UNCHANGED stdout
       ELSE /\ Exit("Could not decode config!")
            /\ UNCHANGED config
    /\ UNCHANGED <<env, targetURL, creds, proxy, listening, inflight, clients, reqs>>

\* main.go:175-178
CheckTarget ==
    /\ mainPc = "checkTarget"
    /\ IF TargetSet
       THEN mainPc' = "parse" /\ UNCHANGED stdout
       ELSE Exit("No proxy target set")
    /\ UNCHANGED <<env, config, targetURL, creds, proxy, listening, inflight, clients, reqs>>

\* main.go:181-185
ParseTarget ==
    /\ mainPc = "parse"
    /\ IF TargetParses
       THEN /\ targetURL' = UrlParse(config.Target)
            /\ mainPc' = "getCreds"
            /\ UNCHANGED stdout
       ELSE /\ Exit("parse error")
            /\ UNCHANGED targetURL
    /\ UNCHANGED <<env, config, creds, proxy, listening, inflight, clients, reqs>>

\* main.go:194-199
GetCreds ==
    /\ mainPc = "getCreds"
    /\ IF CredsObtained
       THEN /\ creds' = env.chain
            /\ mainPc' = "newProxy"
            /\ UNCHANGED stdout
       ELSE /\ Exit("NoCredentialProviders")
            /\ UNCHANGED creds
    /\ UNCHANGED <<env, config, targetURL, proxy, listening, inflight, clients, reqs>>

\* main.go:203-206
BuildProxy ==
    /\ mainPc = "newProxy"
    /\ proxy' = [built |-> TRUE, target |-> targetURL, creds |-> creds,
                 region |-> config.Region]
    /\ mainPc' = "listen"
    /\ UNCHANGED <<env, config, targetURL, creds, listening, stdout, inflight, clients, reqs>>

\* main.go:207-209
Listen ==
    /\ mainPc = "listen"
    /\ listening' = TRUE
    /\ stdout' = Append(stdout, "Listening")
    /\ mainPc' = "serving"
    /\ UNCHANGED <<env, config, targetURL, creds, proxy, inflight, clients, reqs>>

Main == Unmarshal \/ CheckTarget \/ ParseTarget \/ GetCreds \/ BuildProxy \/ Listen

----------------------------------------------------------------------------
(* Requests as the server hands them to the proxy *)

Methods == {"GET", "POST"}

\* "/a%zz" is the decoded form of the request path /a%25zz: url.Parse
\* rejects it ("invalid URL escape") when request.New parses the operation path.
Paths == {"/_search", "/a%zz"}

Queries == {"", "q=test"}

Bytes == {0, 1}

ListenHost == "localhost:8080"

\* Header names as clients write them on the wire.
RawNames == {"authorization", "x-amz-security-token", "Content-Type"}

\* textproto.CanonicalMIMEHeaderKey, applied by net/http when it reads a
\* request and by Header.Set when the signer writes a header.
CanonicalMIMEHeaderKey(n) ==
    CASE n = "authorization" -> "Authorization"
      [] n = "x-amz-security-token" -> "X-Amz-Security-Token"
      [] n = "x-amz-date" -> "X-Amz-Date"
      [] OTHER -> n

SeqsUpTo(S, n) == UNION {[1..k -> S] : k \in 0..n}

\* A request on the wire.  readErrAt = -1: the body reads to EOF; readErrAt = k:
\* the read fails after k bytes have arrived.
Inbound ==
    { x \in [method : Methods, path : Paths, query : Queries,
             fields : SeqsUpTo(RawNames, MaxHdr), hasBody : BOOLEAN,
             body : SeqsUpTo(Bytes, MaxBody), readErrAt : -1..MaxBody] :
        /\ x.readErrAt <= Len(x.body)
        /\ ~x.hasBody => (x.body = <<>> /\ x.readErrAt = -1) }

NoInbound ==
    [method |-> "", path |-> "", query |-> "", fields |-> <<>>,
     hasBody |-> FALSE, body |-> <<>>, readErrAt |-> -1]

\* The requests of the concurrent runs: no body, a body read in full, a body
\* whose read fails half way and whose path the signer rejects.
ConcWorkload ==
    { [method |-> "GET", path |-> "/_search", query |-> "q=test",
       fields |-> <<"authorization">>, hasBody |-> FALSE, body |-> <<>>,
       readErrAt |-> -1],
      [method |-> "POST", path |-> "/_search", query |-> "",
       fields |-> <<"Content-Type", "x-amz-security-token">>, hasBody |-> TRUE,
       body |-> <<0, 1>>, readErrAt |-> -1],
      [method |-> "POST", path |-> "/a%zz", query |-> "",
       fields |-> <<"Content-Type">>, hasBody |-> TRUE,
       body |-> <<1, 0>>, readErrAt |-> 1] }

----------------------------------------------------------------------------
(* http.Header: a map from canonical name to a list of values *)

NoSig ==
    [akid |-> "", region |-> "", service |-> "", method |-> "", host |-> "",
     path |-> "", query |-> "", signedHeaders |-> {}, payload |-> <<>>]

HeaderValue(t) == [text |-> t, sig |-> NoSig]

ClientValue == HeaderValue("client")

EmptyHeader == [n \in {} |-> <<>>]

HeaderGet(h, k) == IF k \in DOMAIN h THEN h[k] ELSE <<>>

\* h[k] = vs
HeaderPut(h, k, vs) == [n \in DOMAIN h \cup {k} |-> IF n = k THEN vs ELSE h[n]]

\* Header.Set: canonical key, single value, replaces
HeaderSet(h, k, v) == HeaderPut(h, CanonicalMIMEHeaderKey(k), <<v>>)

\* Header.Add: canonical key, appends
HeaderAdd(h, k, v) ==
    HeaderPut(h, CanonicalMIMEHeaderKey(k),
              Append(HeaderGet(h, CanonicalMIMEHeaderKey(k)), v))

\* The header map net/http builds from the fields on the wire.
RECURSIVE ReadHeader(_)
ReadHeader(fields) ==
    IF fields = <<>> THEN EmptyHeader
    ELSE HeaderAdd(ReadHeader(SubSeq(fields, 1, Len(fields) - 1)),
                   fields[Len(fields)], ClientValue)

----------------------------------------------------------------------------
(* The per-request record: the *http.Request the director mutates, the     *)
(* aws request built for signing, what the upstream received, what the     *)
(* client got back.                                                        *)

NoBody == [kind |-> "nil", buf |-> <<>>]

NoAwsReq ==
    [made |-> FALSE, Method |-> "", Path |-> "", Error |-> "",
     URL |-> [Scheme |-> "", Host |-> "", Path |-> "", RawQuery |-> ""],
     Header |-> EmptyHeader, Body |-> <<>>, signed |-> FALSE,
     snapshot |-> NoCreds]

NoUpstream ==
    [sent |-> FALSE, Method |-> "", URL |-> [Scheme |-> "", Host |-> "", Path |-> "", RawQuery |-> ""],
     Host |-> "", Header |-> EmptyHeader, body |-> <<>>, result |-> ""]

IdleReq ==
    [active |-> FALSE, in |-> NoInbound, steps |-> <<>>,
     Method |-> "", Host |-> "",
     URL |-> [Scheme |-> "", Host |-> "", Path |-> "", RawQuery |-> ""],
     Header |-> EmptyHeader, Body |-> NoBody, preSign |-> EmptyHeader,
     aws |-> NoAwsReq, up |-> NoUpstream, status |-> "", logged |-> {}]

\* The request as net/http hands it to the handler: origin-form URL (no
\* scheme, no host), Host from the Host header, canonical header keys.
ServerRequest(x) ==
    [IdleReq EXCEPT
        !.active = TRUE,
        !.in = x,
        !.Method = x.method,
        !.Host = ListenHost,
        !.URL = [Scheme |-> "", Host |-> "", Path |-> x.path, RawQuery |-> x.query],
        !.Header = ReadHeader(x.fields),
        !.Body = IF x.hasBody THEN [kind |-> "stream", buf |-> <<>>] ELSE NoBody]

\* A director that signs before it rewrites the destination.
HandlerOrderSignFirst ==
    <<"newreq", "buffer", "sign", "rewrite", "merge", "dispatch", "respond">>

\* The steps of one request's handling, in program order: the director
\* (main.go:50-121), then ReverseProxy's round trip and response copy.
HandlerOrder ==
    <<"rewrite", "newreq", "buffer", "sign", "merge", "dispatch", "respond">>

NextStep(r) ==
    IF r.active /\ Len(r.steps) < Len(HandlerOrder)
    THEN HandlerOrder[Len(r.steps) + 1]
    ELSE "none"

Did(r, step) == [r EXCEPT !.steps = Append(r.steps, step)]

----------------------------------------------------------------------------
(* The director (main.go:50-121), one operator per step *)

ServiceName == "es"

SigningTime == "20150830T123600Z"

\* A rewrite that replaces the whole URL by the target's, path and query included.
RewriteDestinationWholeURL(r, target) ==
    [r EXCEPT !.URL = [Scheme |-> target.Scheme, Host |-> target.Host,
                       Path |-> "", RawQuery |-> ""],
              !.Host = target.Host]

\* main.go:52-54
RewriteDestination(r, target) ==
    [r EXCEPT !.URL.Scheme = target.Scheme,
              !.URL.Host = target.Host,
              !.Host = target.Host]

\* url.Parse(clientInfo.Endpoint + operation.HTTPPath) inside request.New
PathParses(p) == p # "/a%zz"

\* main.go:60-77: request.New with an empty endpoint, the request's method and
\* path, and only the v4 Sign handler.  Its HTTPRequest is a fresh request with
\* no headers and an empty buffer body; a path that does not parse leaves the
\* request with Error set.
NewAwsRequest(r) ==
    [NoAwsReq EXCEPT
        !.made = TRUE,
        !.Method = r.Method,
        !.Path = r.URL.Path,
        !.Error = IF PathParses(r.URL.Path) THEN "" ELSE "InvalidEndpointURL",
        !.URL = IF PathParses(r.URL.Path)
                THEN [Scheme |-> "", Host |-> "", Path |-> r.URL.Path, RawQuery |-> ""]
                ELSE [Scheme |-> "", Host |-> "", Path |-> "", RawQuery |-> ""]]

\* A read that throws away what it has read when it fails.
ReadAllEmptyOnError(body, x) ==
    CASE body.kind = "stream" ->
            [buf |-> IF x.readErrAt = -1 THEN x.body ELSE <<>>,
             err |-> x.readErrAt # -1]
      [] body.kind = "buffer" -> [buf |-> body.buf, err |-> FALSE]
      [] OTHER -> [buf |-> <<>>, err |-> FALSE]

\* ioutil.ReadAll(req.Body): the bytes read, and whether the read failed.  On a
\* failure it returns the bytes read before the failure.
ReadAll(body, x) ==
    CASE body.kind = "stream" ->
            [buf |-> IF x.readErrAt = -1 THEN x.body
                     ELSE SubSeq(x.body, 1, x.readErrAt),
             err |-> x.readErrAt # -1]
      [] body.kind = "buffer" -> [buf |-> body.buf, err |-> FALSE]
      [] OTHER -> [buf |-> <<>>, err |-> FALSE]

\* A director that does not put a copy back in req.Body: the body stays drained.
BufferBodyDrained(r) ==
    IF r.Body.kind = "nil" THEN r
    ELSE LET rd == ReadAll(r.Body, r.in) IN
         [r EXCEPT
            !.logged = IF rd.err THEN @ \cup {"error reading request body"} ELSE @,
            !.Body = [kind |-> "drained", buf |-> <<>>],
            !.aws.Body = rd.buf]

\* A director that does not hand the buffer to the aws request.
BufferBodyNotSet(r) ==
    IF r.Body.kind = "nil" THEN r
    ELSE LET rd == ReadAll(r.Body, r.in) IN
         [r EXCEPT
            !.logged = IF rd.err THEN @ \cup {"error reading request body"} ELSE @,
            !.Body = [kind |-> "buffer", buf |-> rd.buf]]

\* main.go:94-102
BufferBody(r) ==
    IF r.Body.kind = "nil" THEN r
    ELSE LET rd == ReadAll(r.Body, r.in) IN
         [r EXCEPT
            !.logged = IF rd.err THEN @ \cup {"error reading request body"} ELSE @,
            !.Body = [kind |-> "buffer", buf |-> rd.buf],
            !.aws.Body = rd.buf]

\* What the v4 signer signs: the Authorization value is kept as the tuple of
\* everything that enters the canonical request and the credential scope.
Signature(a, cr, region) ==
    [text |-> "AWS4-HMAC-SHA256",
     sig |-> [akid |-> cr.akid, region |-> region, service |-> ServiceName,
              method |-> a.Method, host |-> a.URL.Host, path |-> a.URL.Path,
              query |-> a.URL.RawQuery,
              signedHeaders |-> {"host", "x-amz-date"} \cup
                  (IF cr.token # "" THEN {"x-amz-security-token"} ELSE {}),
              payload |-> a.Body]]

\* A signer that leaves the session token out of the headers.
SignV4NoToken(a, cr, region) ==
    [a EXCEPT !.snapshot = cr,
              !.signed = TRUE,
              !.Header = HeaderSet(HeaderSet(a.Header, "x-amz-date", HeaderValue(SigningTime)),
                                   "authorization", Signature(a, cr, region))]

\* v4.SignSDKRequest on the aws request: credentials are fetched first (an
\* error there leaves the headers untouched), then the session token header,
\* the date header and the Authorization header are set.
SignV4(a, cr, region) ==
    LET h1 == IF cr.token # ""
              THEN HeaderSet(a.Header, "x-amz-security-token", HeaderValue(cr.token))
              ELSE a.Header
        h2 == HeaderSet(h1, "x-amz-date", HeaderValue(SigningTime))
    IN  [a EXCEPT !.snapshot = cr,
                  !.signed = TRUE,
                  !.Header = HeaderSet(h2, "authorization", Signature(a, cr, region))]

\* A signing step whose failure leaves the date header on the aws request.
SignRequestPartial(r, cr, region, got) ==
    LET a == [r.aws EXCEPT !.URL = r.URL]
        b == IF a.Error # "" THEN a
             ELSE IF ~got
                  THEN [a EXCEPT !.Error = "NoCredentialProviders",
                                 !.Header = HeaderSet(a.Header, "x-amz-date",
                                                      HeaderValue(SigningTime))]
             ELSE SignV4(a, cr, region)
    IN  [r EXCEPT !.aws = b,
                  !.preSign = r.Header,
                  !.logged = IF b.Error # "" THEN @ \cup {"error signing"} ELSE @]

\* main.go:106-115: awsReq.HTTPRequest.URL = req.URL, then awsReq.Sign().
\* Sign returns the request's pending error without running the handlers;
\* got = FALSE is a failure of Credentials.Get.  An error is only logged.
SignRequest(r, cr, region, got) ==
    LET a == [r.aws EXCEPT !.URL = r.URL]
        b == IF a.Error # "" THEN a
             ELSE IF ~got THEN [a EXCEPT !.Error = "NoCredentialProviders"]
             ELSE SignV4(a, cr, region)
    IN  [r EXCEPT !.aws = b,
                  !.preSign = r.Header,
                  !.logged = IF b.Error # "" THEN @ \cup {"error signing"} ELSE @]

\* A merge that adds the signed values to the ones already there.
MergeHeadersAppend(r) ==
    [r EXCEPT !.Header =
        [n \in DOMAIN r.Header \cup DOMAIN r.aws.Header |->
            HeaderGet(r.Header, n) \o HeaderGet(r.aws.Header, n)]]

\* main.go:118-120: req.Header[k] = v for each header of the aws request
MergeHeaders(r) ==
    [r EXCEPT !.Header =
        [n \in DOMAIN r.Header \cup DOMAIN r.aws.Header |->
            IF n \in DOMAIN r.aws.Header THEN r.aws.Header[n] ELSE r.Header[n]]]

----------------------------------------------------------------------------
(* ReverseProxy: round trip and response copy (main.go:143-147) *)

UpstreamResults == {"200", "403", "error"}

\* What the transport reads from req.Body when it sends the request.
TransportBody(r) == ReadAll(r.Body, r.in).buf

RoundTrip(r, result) ==
    [r EXCEPT !.up = [sent |-> TRUE, Method |-> r.Method, URL |-> r.URL,
                      Host |-> r.Host, Header |-> r.Header,
                      body |-> TransportBody(r), result |-> result]]

\* The upstream's status is copied back; a transport error becomes 502.
CopyResponse(r) ==
    [r EXCEPT !.status = IF r.up.result = "error" THEN "502" ELSE r.up.result]

----------------------------------------------------------------------------
(* Actions of the request handlers *)

Population == IF clients = "any" THEN Inbound ELSE ConcWorkload

\* Handlers that keep the body buffer in one place for all requests.
UpdateShared(i, r) ==
    [j \in Slots |->
        IF j = i THEN r
        ELSE IF reqs[j].active /\ r.active
             THEN [reqs[j] EXCEPT !.Body = r.Body, !.aws.Body = r.aws.Body]
             ELSE reqs[j]]

\* Each handler works on its own *http.Request (the director's parameter).
Update(i, r) == [reqs EXCEPT ![i] = r]

Accept(i) ==
    /\ listening
    /\ i <= inflight
    /\ ~reqs[i].active
    /\ \E x \in Population : reqs' = Update(i, ServerRequest(x))
    /\ UNCHANGED <<mainVars, inflight, clients>>

Rewrite(i) ==
    /\ NextStep(reqs[i]) = "rewrite"
    /\ reqs' = Update(i, Did(RewriteDestination(reqs[i], proxy.target), "rewrite"))
    /\ UNCHANGED <<mainVars, inflight, clients>>

NewReq(i) ==
    /\ NextStep(reqs[i]) = "newreq"
    /\ reqs' = Update(i, Did([reqs[i] EXCEPT !.aws = NewAwsRequest(reqs[i])], "newreq"))
    /\ UNCHANGED <<mainVars, inflight, clients>>

Buffer(i) ==
    /\ NextStep(reqs[i]) = "buffer"
    /\ reqs' = Update(i, Did(BufferBody(reqs[i]), "buffer"))
    /\ UNCHANGED <<mainVars, inflight, clients>>

Sign(i) ==
    /\ NextStep(reqs[i]) = "sign"
    /\ \E got \in BOOLEAN :
         reqs' = Update(i, Did(SignRequest(reqs[i], proxy.creds, proxy.region, got), "sign"))
    /\ UNCHANGED <<mainVars, inflight, clients>>

Merge(i) ==
    /\ NextStep(reqs[i]) = "merge"
    /\ reqs' = Update(i, Did(MergeHeaders(reqs[i]), "merge"))
    /\ UNCHANGED <<mainVars, inflight, clients>>

Dispatch(i) ==
    /\ NextStep(reqs[i]) = "dispatch"
    /\ \E result \in UpstreamResults :
         reqs' = Update(i, Did(RoundTrip(reqs[i], result), "dispatch"))
    /\ UNCHANGED <<mainVars, inflight, clients>>

Respond(i) ==
    /\ NextStep(reqs[i]) = "respond"
    /\ reqs' = Update(i, Did(CopyResponse(reqs[i]), "respond"))
    /\ UNCHANGED <<mainVars, inflight, clients>>

\* The handler returns; the slot is free for the next request.
Finish(i) ==
    /\ reqs[i].active
    /\ Len(reqs[i].steps) = Len(HandlerOrder)
    /\ reqs' = Update(i, IdleReq)
    /\ UNCHANGED <<mainVars, inflight, clients>>

Handle(i) ==
    \/ Accept(i) \/ Rewrite(i) \/ NewReq(i) \/ Buffer(i) \/ Sign(i)
    \/ Merge(i) \/ Dispatch(i) \/ Respond(i) \/ Finish(i)

----------------------------------------------------------------------------
(* Specifications *)

InitMain ==
    /\ env \in Environments
    /\ mainPc = "unmarshal"
    /\ config = NoConfig
    /\ targetURL = NoURL
    /\ creds = NoCreds
    /\ proxy = NoProxy
    /\ listening = FALSE
    /\ stdout = <<>>
    /\ reqs = [i \in Slots |-> IdleReq]

Init == InitMain /\ inflight = 1 /\ clients = "any"

InitConc == InitMain /\ inflight = NumReq /\ clients = "workload"

Next == Main \/ \E i \in Slots : Handle(i)

Spec == Init /\ [][Next]_vars

SpecConc == InitConc /\ [][Next]_vars

----------------------------------------------------------------------------
(* Properties *)

Done(r, step) == \E k \in 1..Len(r.steps) : r.steps[k] = step

IsPrefix(s, t) == Len(s) <= Len(t) /\ \A k \in 1..Len(s) : s[k] = t[k]

ReadFails(r) == r.in.hasBody /\ r.in.readErrAt # -1

Authorization(r) == r.aws.Header["Authorization"][1].sig

TokenHeader == "X-Amz-Security-Token"

\* C1: for every request with a body, the bytes given to the signer for the
\* payload digest are the bytes left in req.Body for the transport, from the
\* buffering step on and at dispatch, whether or not the read failed.
C1_SignedBodyIsForwardedBody ==
    \A i \in Slots :
        LET r == reqs[i] IN
        (r.in.hasBody /\ Done(r, "buffer")) =>
            /\ r.Body.kind = "buffer"
            /\ r.aws.Body = r.Body.buf
            /\ r.aws.signed => Authorization(r).payload = r.Body.buf
            /\ r.up.sent => r.up.body = r.aws.Body

C1_Witness ==
    \E i \in Slots :
        /\ ReadFails(reqs[i]) /\ reqs[i].in.readErrAt = 1
        /\ Len(reqs[i].in.body) = 2
        /\ reqs[i].aws.signed /\ reqs[i].up.sent

\* C2 as stated: whatever the outcome of the body read, the upstream receives
\* the inbound body B exactly.
C2_UpstreamGetsBodyAlways ==
    \A i \in Slots :
        (reqs[i].in.hasBody /\ reqs[i].up.sent) => reqs[i].up.body = reqs[i].in.body

\* C2 amended: the upstream receives B exactly when the read of the inbound
\* body succeeds; when the read fails after k bytes it receives those k bytes.
C2_UpstreamGetsBodyRead ==
    \A i \in Slots :
        LET r == reqs[i] IN
        (r.in.hasBody /\ r.up.sent) =>
            /\ r.in.readErrAt = -1 => r.up.body = r.in.body
            /\ r.in.readErrAt # -1 => r.up.body = SubSeq(r.in.body, 1, r.in.readErrAt)

C2_Witness ==
    \E i \in Slots :
        /\ reqs[i].in.hasBody /\ reqs[i].in.readErrAt = -1
        /\ Len(reqs[i].in.body) = 2 /\ reqs[i].in.body[1] # reqs[i].in.body[2]
        /\ reqs[i].up.sent

ClaimedOrder == <<"rewrite", "buffer", "sign", "merge", "dispatch", "respond">>

InClaimedOrder(step) == \E k \in 1..Len(ClaimedOrder) : ClaimedOrder[k] = step

\* C3: the steps of every request happen in the order rewrite, buffer, sign,
\* merge, dispatch, respond, and whatever has been signed was signed for the
\* target's scheme and host.
C3_StepsInOrder ==
    \A i \in Slots :
        LET r == reqs[i] IN
        /\ IsPrefix(SelectSeq(r.steps, InClaimedOrder), ClaimedOrder)
        /\ Done(r, "sign") =>
              /\ r.aws.URL.Scheme = proxy.target.Scheme
              /\ r.aws.URL.Host = proxy.target.Host
        /\ r.aws.signed => Authorization(r).host = proxy.target.Host

C3_Witness ==
    \E i \in Slots :
        /\ reqs[i].aws.signed /\ reqs[i].status = "200"
        /\ Len(reqs[i].steps) = Len(HandlerOrder)

\* C4: after the merge, every header name of the signed set carries exactly the
\* signer's values (no inbound value is left under it), and no two keys of the
\* outbound header differ only in spelling.
C4_MergeOverwrites ==
    \A i \in Slots :
        LET r == reqs[i] IN
        Done(r, "merge") =>
            /\ \A n \in DOMAIN r.aws.Header :
                  /\ n \in DOMAIN r.Header
                  /\ r.Header[n] = r.aws.Header[n]
                  /\ \A k \in 1..Len(r.Header[n]) : r.Header[n][k] # ClientValue
            /\ \A n, m \in DOMAIN r.Header :
                  CanonicalMIMEHeaderKey(n) = CanonicalMIMEHeaderKey(m) => n = m

C4_Witness ==
    \E i \in Slots :
        /\ reqs[i].in.fields = <<"authorization", "authorization">>
        /\ reqs[i].aws.signed /\ Done(reqs[i], "merge")

\* C5 as stated: after the merge the request has a session-token header exactly
\* when the credentials used for signing carry a session token.
C5_TokenHeaderIffToken ==
    \A i \in Slots :
        LET r == reqs[i] IN
        (r.aws.signed /\ Done(r, "merge")) =>
            (TokenHeader \in DOMAIN r.Header <=> r.aws.snapshot.token # "")

\* C5 amended: with a session token the merged request carries the token as
\* its session-token header; without one the merge adds none, so the header is
\* there only if the inbound request had it, with the inbound values.
C5_TokenHeaderFromSigner ==
    \A i \in Slots :
        LET r == reqs[i] IN
        (r.aws.signed /\ Done(r, "merge")) =>
            /\ r.aws.snapshot.token # "" =>
                  HeaderGet(r.Header, TokenHeader) = <<HeaderValue(r.aws.snapshot.token)>>
            /\ r.aws.snapshot.token = "" =>
                  HeaderGet(r.Header, TokenHeader) =
                      HeaderGet(ReadHeader(r.in.fields), TokenHeader)

C5_Witness ==
    \E i \in Slots :
        /\ reqs[i].aws.signed /\ Done(reqs[i], "merge")
        /\ reqs[i].aws.snapshot.token # ""
        /\ reqs[i].in.fields = <<"x-amz-security-token">>

\* C6: when signing returns an error the handler goes on: the merge leaves the
\* headers as they were before signing, the request can still be dispatched,
\* and it is dispatched with those headers.
C6_SignErrorForwardsUnsigned ==
    \A i \in Slots :
        LET r == reqs[i] IN
        (Done(r, "sign") /\ r.aws.Error # "") =>
            /\ "error signing" \in r.logged
            /\ Done(r, "merge") => r.Header = r.preSign
            /\ ~r.up.sent => ENABLED (Merge(i) \/ Dispatch(i))
            /\ r.up.sent => r.up.Header = r.preSign

C6_Witness ==
    \E i \in Slots :
        /\ reqs[i].aws.Error = "NoCredentialProviders"
        /\ reqs[i].in.fields = <<"Content-Type", "authorization">>
        /\ reqs[i].up.sent

\* C7 as stated: when the body read fails, the payload given to the signer is
\* empty, however many bytes were read before the failure.
C7_ReadErrorSignsEmpty ==
    \A i \in Slots :
        (ReadFails(reqs[i]) /\ Done(reqs[i], "buffer")) => reqs[i].aws.Body = <<>>

\* C7 amended: when the body read fails, the error is logged and signing goes
\* on with the bytes read before the failure as the payload.
C7_ReadErrorSignsPrefix ==
    \A i \in Slots :
        LET r == reqs[i] IN
        (ReadFails(r) /\ Done(r, "buffer")) =>
            /\ "error reading request body" \in r.logged
            /\ r.aws.Body = SubSeq(r.in.body, 1, r.in.readErrAt)
            /\ ~Done(r, "sign") => ENABLED Sign(i)
            /\ r.aws.signed =>
                  Authorization(r).payload = SubSeq(r.in.body, 1, r.in.readErrAt)

C7_Witness ==
    \E i \in Slots :
        /\ ReadFails(reqs[i]) /\ reqs[i].in.readErrAt = 2
        /\ reqs[i].aws.signed

StartupValid ==
    /\ env.decodeOk
    /\ env.target # ""
    /\ UrlParse(env.target).ok
    /\ env.chain.ok

\* C8: the proxy is built and the listener opened only when the configuration
\* decoded, a target is set and parses, and credentials were obtained;
\* otherwise main prints one diagnostic and exits, and no request is served.
C8_ListenOnlyAfterValidation ==
    /\ (listening \/ proxy.built \/ mainPc \in {"newProxy", "listen", "serving"})
          => StartupValid
    /\ (\E i \in Slots : reqs[i].active) => listening
    /\ mainPc = "exited" =>
          /\ ~StartupValid
          /\ ~listening /\ ~proxy.built
          /\ Len(stdout) = 1 /\ stdout[1] # "Listening"

C8_Witness ==
    /\ mainPc = "exited"
    /\ env.decodeOk /\ env.target = "https://search.example.com"
    /\ ~env.chain.ok

\* The outcome of a request's handling so far is fixed by its own input, the
\* steps it has taken and the outcomes of its own signing and round trip.
OwnOutcome(r) ==
    <<r.in, r.steps, r.aws.signed, r.aws.Error, r.up.result>>

Determined ==
    \A i, j \in Slots :
        OwnOutcome(reqs[i]) = OwnOutcome(reqs[j]) => reqs[i] = reqs[j]

====
